---- MODULE Spec2Model ----
(***************************************************************************)
(* A state-machine model of task3_functions.py: the training driver        *)
(* train_model, the qualitative visualizer visualize_model and the error   *)
(* explorer explore_wrong_5x5_rgb.  Each function is a specification of    *)
(* its own (SpecTrain, SpecViz, SpecExplore) over one set of variables;    *)
(* a specification leaves the variables of the other functions at their    *)
(* idle values.                                                            *)
(*                                                                         *)
(* The framework objects are opaque, so they are modelled by what the      *)
(* code can observe of them:                                               *)
(*   - model.state_dict() is the number of optimizer steps applied so far  *)
(*     (every optimizer.step() yields a parameter value never seen before, *)
(*     so two equal values in the model are equal parameters in the code); *)
(*   - the model's outputs are a nondeterministic prediction per example;  *)
(*   - a dataloader is the sequence of its batches.                        *)
(***************************************************************************)
EXTENDS Integers, Sequences, FiniteSets, TLC

\* ------------------------------------------------------------------ bounds
MaxEpochs == 2
MaxExamples == 3
MaxBatchSize == 2
MaxImages == 4
MaxHead == 2
MaxSeed == 1

Classes == {0, 1}

VARIABLES
    pc,                 \* control position of the running function
    training,           \* model.training
    entry_mode,         \* history: model.training when the function was called
    dataloaders,        \* split name -> sequence of label batches
    \* ---- train_model
    num_epochs, dataset_sizes,
    epoch, phase, bidx,
    params,             \* model.state_dict()
    best_model_wts, best_acc,
    running_loss, running_corrects,
    epoch_acc,
    sched_steps,        \* number of scheduler.step() calls
    opt_steps,          \* number of optimizer.step() calls
    grad_enabled,       \* torch's global gradient mode
    last,               \* the batch processed by the latest loop iteration
    val_log,            \* history: accuracy and parameters of every val phase
    \* ---- visualize_model
    num_images, was_training, images_so_far,
    vi, vj,             \* batches fetched so far, examples shown of the batch
    vpreds,             \* preds of the current batch
    rendered,           \* the subplots drawn, in drawing order
    \* ---- explore_wrong_5x5_rgb
    xdata,              \* dataloader: batches of examples with the model's argmax
    replace,
    xi,                 \* batches scanned so far
    wrong_ixs,          \* indices of the current batch still to be appended
    all_wrong, preds, gtruths,
    example_ixs,
    cells               \* the grid cells drawn, in drawing order

trainVars == <<num_epochs, dataset_sizes, epoch, phase, bidx,
               params, best_model_wts, best_acc, running_loss,
               running_corrects, epoch_acc, sched_steps, opt_steps,
               grad_enabled, last, val_log>>

vizVars == <<num_images, was_training, images_so_far, vi, vj, vpreds, rendered>>

exploreVars == <<xdata, replace, xi, wrong_ixs, all_wrong, preds, gtruths, example_ixs, cells>>

vars == <<pc, training, entry_mode, dataloaders, trainVars, vizVars, exploreVars>>

\* ------------------------------------------------------------ helpers
Range(s) == {s[i] : i \in DOMAIN s}

SeqsUpTo(S, n) == UNION {[1..k -> S] : k \in 0..n}

\* A real number a/b with b > 0, as the code's true division produces it.
Frac(n, d) == [num |-> n, den |-> d]
FracGt(a, b) == a.num * b.den > b.num * a.den

Min(a, b) == IF a < b THEN a ELSE b

NoBatch == [phase |-> "none", labels |-> <<>>, preds |-> <<>>, loss |-> 0,
            grad |-> FALSE, stepped |-> FALSE,
            corrects_before |-> 0, loss_before |-> 0]

\* ------------------------------------------------------- train_model
\* copy.deepcopy(model.state_dict()): an independent value
DeepCopy(p) == p

BatchCorrects_CountsWrong(bpreds, labels) ==
    Cardinality({i \in DOMAIN labels : bpreds[i] # labels[i]})

\* torch.sum(preds == labels.data)
BatchCorrects(bpreds, labels) ==
    Cardinality({i \in DOMAIN labels : bpreds[i] = labels[i]})

\* loss.item() * inputs.size(0)
BatchLoss(loss, labels) == loss * Len(labels)

\* with torch.set_grad_enabled(phase == 'train')
GradFor(ph) == ph = "train"

OptimizeIn_EveryPhase(ph) == TRUE

\* if phase == 'train': loss.backward(); optimizer.step()
OptimizeIn(ph) == ph = "train"

SchedulerStepsIn_EveryPhase(ph) == TRUE

\* if phase == 'train': scheduler.step()
SchedulerStepsIn(ph) == ph = "train"

Improves_OnTies(ph, acc, best) == ph = "val" /\ ~FracGt(best, acc)

\* phase == 'val' and epoch_acc > best_acc
Improves(ph, acc, best) == ph = "val" /\ FracGt(acc, best)

LoadStateDict_Skipped(cur, best) == cur

\* model.load_state_dict(best_model_wts)
LoadStateDict(cur, best) == best

InitialBestAcc == Frac(0, 1)

\* criterion(outputs, labels): a scalar that depends on the outputs and the
\* labels; here one plus the number of misclassified examples of the batch
Criterion(bpreds, labels) ==
    1 + Cardinality({i \in DOMAIN labels : bpreds[i] # labels[i]})

\* The label of the k-th example of a split (k from 1).
LabelOf(k) == (k - 1) % Cardinality(Classes)

\* A DataLoader over n examples with batch size bs: batches of bs labels in
\* dataset order, the last one shorter when bs does not divide n.
Loader(n, bs) ==
    [b \in 1..((n + bs - 1) \div bs) |->
        [j \in 1..Min(bs, n - (b - 1) * bs) |-> LabelOf((b - 1) * bs + j)]]

Loaders == {Loader(n, bs) : n \in 0..MaxExamples, bs \in 1..MaxBatchSize}

RECURSIVE NumExamples(_)
NumExamples(loader) ==
    IF loader = <<>> THEN 0
    ELSE Len(Head(loader)) + NumExamples(Tail(loader))

\* The scenario batch of the documentation: four examples labelled [0,1,1,0].
ScenarioLoader == << <<0, 1, 1, 0>> >>

TrainLoaders == Loaders \cup {ScenarioLoader}

\* dataset_sizes is supplied by the caller, apart from the loaders: the number
\* of examples of the split or, e.g. with a sampler, another positive number
SplitSizes(loader) ==
    {IF NumExamples(loader) = 0 THEN 1 ELSE NumExamples(loader),
     NumExamples(loader) + 1}

InitialParams == 0

TrainFresh ==
    /\ epoch = 0 /\ phase = "train" /\ bidx = 0
    /\ params = InitialParams /\ best_model_wts = InitialParams
    /\ best_acc = InitialBestAcc
    /\ running_loss = 0 /\ running_corrects = 0
    /\ epoch_acc = Frac(0, 1)
    /\ sched_steps = 0 /\ opt_steps = 0
    /\ last = NoBatch /\ val_log = <<>>

TrainIdle ==
    /\ num_epochs = 0 /\ dataset_sizes = [train |-> 1, val |-> 1]
    /\ grad_enabled = TRUE
    /\ TrainFresh

VizFresh ==
    /\ was_training = FALSE /\ images_so_far = 0
    /\ vi = 0 /\ vj = 0 /\ vpreds = <<>> /\ rendered = <<>>

VizIdle == num_images = 0 /\ VizFresh

ExploreFresh ==
    /\ xi = 0 /\ wrong_ixs = <<>>
    /\ all_wrong = <<>> /\ preds = <<>> /\ gtruths = <<>>
    /\ example_ixs = <<>> /\ cells = <<>>

ExploreIdle == xdata = <<>> /\ replace = FALSE /\ ExploreFresh

InitTrain ==
    /\ pc = "start"
    /\ training = TRUE            \* a freshly constructed module is in train mode
    /\ entry_mode = training
    /\ grad_enabled = TRUE        \* torch's default gradient mode
    /\ num_epochs \in 0..MaxEpochs
    /\ dataloaders \in [{"train", "val"} -> TrainLoaders]
    /\ \E st \in SplitSizes(dataloaders["train"]), sv \in SplitSizes(dataloaders["val"]) :
          dataset_sizes = [train |-> st, val |-> sv]
    /\ TrainFresh
    /\ VizIdle
    /\ ExploreIdle

\* lines 40-43: snapshot of the parameters on entry, best accuracy 0.0
TrainEnter ==
    /\ pc = "start"
    /\ best_model_wts' = DeepCopy(params)
    /\ best_acc' = InitialBestAcc
    /\ epoch' = 0
    /\ phase' = "train"
    /\ pc' = IF num_epochs > 0 THEN "phase_begin" ELSE "finish"
    /\ UNCHANGED <<entry_mode, vizVars, exploreVars>>
    /\ UNCHANGED <<training, num_epochs, dataloaders, dataset_sizes, bidx,
                   params, running_loss, running_corrects, epoch_acc,
                   sched_steps, opt_steps, grad_enabled, last, val_log>>

\* lines 50-57: set the mode of the phase, reset the two accumulators
PhaseBegin ==
    /\ pc = "phase_begin"
    /\ training' = (phase = "train")
    /\ running_loss' = 0
    /\ running_corrects' = 0
    /\ bidx' = 0
    /\ pc' = "batches"
    /\ UNCHANGED <<entry_mode, vizVars, exploreVars>>
    /\ UNCHANGED <<num_epochs, dataloaders, dataset_sizes, epoch, phase,
                   params, best_model_wts, best_acc, epoch_acc, sched_steps,
                   opt_steps, grad_enabled, last, val_log>>

\* lines 60-81: one iteration of the batch loop
Batch ==
    /\ pc = "batches"
    /\ bidx < Len(dataloaders[phase])
    /\ LET labels == dataloaders[phase][bidx + 1] IN
       \E bpreds \in [DOMAIN labels -> Classes] :
        LET loss == Criterion(bpreds, labels) IN
          /\ last' = [phase |-> phase, labels |-> labels, preds |-> bpreds,
                      loss |-> loss, grad |-> GradFor(phase),
                      stepped |-> OptimizeIn(phase),
                      corrects_before |-> running_corrects,
                      loss_before |-> running_loss]
          /\ params' = IF OptimizeIn(phase) THEN opt_steps + 1 ELSE params
          /\ opt_steps' = IF OptimizeIn(phase) THEN opt_steps + 1 ELSE opt_steps
          /\ running_loss' = running_loss + BatchLoss(loss, labels)
          /\ running_corrects' = running_corrects + BatchCorrects(bpreds, labels)
    /\ bidx' = bidx + 1
    \* the with-block restores the gradient mode it found
    /\ UNCHANGED <<entry_mode, vizVars, exploreVars>>
    /\ UNCHANGED <<pc, training, num_epochs, dataloaders, dataset_sizes, epoch,
                   phase, best_model_wts, best_acc, epoch_acc, sched_steps,
                   grad_enabled, val_log>>

\* lines 82-95: the loader of the phase is exhausted
PhaseEnd ==
    /\ pc = "batches"
    /\ bidx = Len(dataloaders[phase])
    /\ sched_steps' = IF SchedulerStepsIn(phase) THEN sched_steps + 1 ELSE sched_steps
    /\ IF bidx = 0
       THEN \* running_corrects is still the int 0: .double() raises
            /\ pc' = "failed"
            /\ UNCHANGED <<epoch_acc, best_acc, best_model_wts, val_log,
                           epoch, phase>>
       ELSE /\ epoch_acc' = Frac(running_corrects, dataset_sizes[phase])
            /\ IF Improves(phase, epoch_acc', best_acc)
               THEN /\ best_acc' = epoch_acc'
                    /\ best_model_wts' = DeepCopy(params)
               ELSE UNCHANGED <<best_acc, best_model_wts>>
            /\ IF phase = "train"
               THEN /\ phase' = "val"
                    /\ pc' = "phase_begin"
                    /\ UNCHANGED <<epoch, val_log>>
               ELSE /\ val_log' = Append(val_log, [acc |-> epoch_acc', wts |-> params])
                    /\ phase' = "train"
                    /\ epoch' = epoch + 1
                    /\ pc' = IF epoch + 1 < num_epochs THEN "phase_begin" ELSE "finish"
    /\ UNCHANGED <<entry_mode, vizVars, exploreVars>>
    /\ UNCHANGED <<training, num_epochs, dataloaders, dataset_sizes, bidx,
                   params, running_loss, running_corrects, opt_steps,
                   grad_enabled, last>>

\* lines 97-103: load the best weights and return the model
Finish ==
    /\ pc = "finish"
    /\ params' = LoadStateDict(params, best_model_wts)
    /\ pc' = "done"
    /\ UNCHANGED <<entry_mode, vizVars, exploreVars>>
    /\ UNCHANGED <<training, num_epochs, dataloaders, dataset_sizes, epoch,
                   phase, bidx, best_model_wts, best_acc, running_loss,
                   running_corrects, epoch_acc, sched_steps, opt_steps,
                   grad_enabled, last, val_log>>

NextTrain == TrainEnter \/ PhaseBegin \/ Batch \/ PhaseEnd \/ Finish

SpecTrain == InitTrain /\ [][NextTrain]_vars

\* --------------------------------------------------- visualize_model
\* plt.subplot(num_images//2, 2, images_so_far): a grid of num_images//2 rows
\* and 2 columns; matplotlib raises ValueError unless the grid has a row and
\* 1 <= images_so_far <= rows * 2
SubplotFits(n, k) == (n \div 2) >= 1 /\ 1 <= k /\ k <= (n \div 2) * 2

LimitReached_Beyond(k, n) == k > n

\* if images_so_far == num_images
LimitReached(k, n) == k = n

\* model.train(mode=was_training)
RestoredMode(was) == was

InitViz ==
    /\ pc = "start"
    /\ training \in BOOLEAN
    /\ entry_mode = training
    /\ \E loader \in Loaders : dataloaders = [train |-> <<>>, val |-> loader]
    /\ num_images \in 0..MaxImages
    /\ VizFresh
    /\ TrainIdle
    /\ ExploreIdle

\* lines 107-110
VizEnter ==
    /\ pc = "start"
    /\ was_training' = training
    /\ training' = FALSE
    /\ images_so_far' = 0
    /\ pc' = "viz_batches"
    /\ UNCHANGED <<entry_mode, dataloaders, trainVars, exploreVars,
                   num_images, vi, vj, vpreds, rendered>>

\* lines 113-118: the next validation batch and the model's predictions for it
VizBatch ==
    /\ pc = "viz_batches"
    /\ vi < Len(dataloaders["val"])
    /\ \E bpreds \in [DOMAIN dataloaders["val"][vi + 1] -> Classes] : vpreds' = bpreds
    /\ vi' = vi + 1
    /\ vj' = 0
    /\ pc' = "viz_images"
    /\ UNCHANGED <<training, entry_mode, dataloaders, trainVars, exploreVars,
                   num_images, was_training, images_so_far, rendered>>

\* lines 120-129: one iteration of the loop over the examples of the batch
VizShow ==
    /\ pc = "viz_images"
    /\ vj < Len(vpreds)
    /\ images_so_far' = images_so_far + 1
    /\ IF ~SubplotFits(num_images, images_so_far')
       THEN \* plt.subplot raises: the function is left with the model in eval mode
            /\ pc' = "failed"
            /\ UNCHANGED <<training, vj, rendered>>
       ELSE /\ rendered' = Append(rendered, [batch |-> vi - 1, index |-> vj,
                                              title |-> vpreds[vj + 1]])
            /\ IF LimitReached(images_so_far', num_images)
               THEN /\ training' = RestoredMode(was_training)
                    /\ pc' = "done"
                    /\ vj' = vj
               ELSE /\ vj' = vj + 1
                    /\ pc' = IF vj + 1 = Len(vpreds) THEN "viz_batches" ELSE "viz_images"
                    /\ UNCHANGED training
    /\ UNCHANGED <<entry_mode, dataloaders, trainVars, exploreVars,
                   num_images, was_training, vi, vpreds>>

\* line 130: the validation split is exhausted
VizExhausted ==
    /\ pc = "viz_batches"
    /\ vi = Len(dataloaders["val"])
    /\ training' = RestoredMode(was_training)
    /\ pc' = "done"
    /\ UNCHANGED <<entry_mode, dataloaders, trainVars, exploreVars, vizVars>>

NextViz == VizEnter \/ VizBatch \/ VizShow \/ VizExhausted

SpecViz == InitViz /\ [][NextViz]_vars

\* --------------------------------------------- explore_wrong_5x5_rgb
SampleSize == 25

\* An example: its input x, its true label y and the arg-max out of the
\* model's output for x (the model is in eval mode and is not updated).
ExampleKinds == [y : Classes, out : Classes]

Misclassified == [y |-> 0, out |-> 1]

\* datasets: up to MaxHead arbitrary examples followed by none or about
\* SampleSize misclassified ones
FillSizes == {0, SampleSize - 2, SampleSize - 1, SampleSize}

ExampleSeqs ==
    {h \o [i \in 1..f |-> Misclassified] :
        h \in SeqsUpTo(ExampleKinds, MaxHead), f \in FillSizes}

WithInputs(es) == [i \in DOMAIN es |-> [x |-> i, y |-> es[i].y, out |-> es[i].out]]

Batched(es, bs) ==
    [b \in 1..((Len(es) + bs - 1) \div bs) |->
        SubSeq(es, (b - 1) * bs + 1, Min(b * bs, Len(es)))]

ExploreLoaders ==
    {Batched(WithInputs(es), bs) : es \in ExampleSeqs, bs \in 1..MaxBatchSize}

IsWrong_OnlyAbove(out, y) == out > y

\* wrong = pred != y
IsWrong(out, y) == out # y

\* torch.argwhere(wrong).flatten(): the indices (from 0) of the misclassified
\* examples of the batch, ascending
RECURSIVE WrongIxsFrom(_, _)
WrongIxsFrom(batch, i) ==
    IF i > Len(batch) THEN <<>>
    ELSE (IF IsWrong(batch[i].out, batch[i].y) THEN <<i - 1>> ELSE <<>>)
         \o WrongIxsFrom(batch, i + 1)

WrongIxs(batch) == WrongIxsFrom(batch, 1)

\* rng.choice(range(n), k, replace=rep) raises ValueError when the population
\* is empty, or smaller than the sample and rep is false
ChoiceFails(n, k, rep) == n = 0 \/ (~rep /\ k > n)

\* rng.choice(range(n), k, replace=rep) otherwise: k indices of 0..n-1 that
\* the seed determines; without replacement a rotation of the range read
\* forwards or backwards, with replacement a walk that revisits indices
Choice(n, k, rep, seed) ==
    [i \in 1..k |->
        IF rep THEN ((seed + 1) * (((i - 1) * i) \div 2)) % n
        ELSE (seed + (i - 1) * (IF seed % 2 = 0 THEN 1 ELSE n - 1)) % n]

DrawFails_AsWithReplacement(n, rep) == ChoiceFails(n, SampleSize, TRUE)

\* line 150: rng.choice(range(len(gtruths)), 25, replace=replace)
DrawFails(n, rep) == ChoiceFails(n, SampleSize, rep)

Draw(n, rep, seed) == Choice(n, SampleSize, rep, seed)

ExitMode_Restored(entry) == entry

\* line 173: model.train()
ExitMode(entry) == TRUE

InitExplore ==
    /\ pc = "start"
    /\ training \in BOOLEAN
    /\ entry_mode = training
    /\ dataloaders = [train |-> <<>>, val |-> <<>>]
    /\ xdata \in ExploreLoaders
    /\ replace \in BOOLEAN
    /\ ExploreFresh
    /\ TrainIdle
    /\ VizIdle

\* lines 135-139
ExploreEnter ==
    /\ pc = "start"
    /\ training' = FALSE
    /\ all_wrong' = <<>> /\ preds' = <<>> /\ gtruths' = <<>>
    /\ pc' = "scan"
    /\ UNCHANGED <<entry_mode, dataloaders, trainVars, vizVars,
                   xdata, replace, xi, wrong_ixs, example_ixs, cells>>

\* lines 140-144: the next batch and the indices of its misclassified examples
ExploreBatch ==
    /\ pc = "scan"
    /\ xi < Len(xdata)
    /\ xi' = xi + 1
    /\ wrong_ixs' = WrongIxs(xdata[xi + 1])
    /\ pc' = IF wrong_ixs' = <<>> THEN "scan" ELSE "append"
    /\ UNCHANGED <<training, entry_mode, dataloaders, trainVars, vizVars,
                   xdata, replace, all_wrong, preds, gtruths, example_ixs, cells>>

\* lines 145-148: one iteration of the loop over wrong_ixs
ExploreAppend ==
    /\ pc = "append"
    /\ LET ex == xdata[xi][Head(wrong_ixs) + 1] IN
          /\ all_wrong' = Append(all_wrong, ex.x)
          /\ preds' = Append(preds, ex.out)
          /\ gtruths' = Append(gtruths, ex.y)
    /\ wrong_ixs' = Tail(wrong_ixs)
    /\ pc' = IF wrong_ixs' = <<>> THEN "scan" ELSE "append"
    /\ UNCHANGED <<training, entry_mode, dataloaders, trainVars, vizVars,
                   xdata, replace, xi, example_ixs, cells>>

\* line 150: the draw of the 25 indices, or its ValueError
ExploreSample ==
    /\ pc = "scan"
    /\ xi = Len(xdata)
    /\ IF DrawFails(Len(gtruths), replace)
       THEN /\ pc' = "failed"
            /\ UNCHANGED example_ixs
       ELSE /\ \E seed \in 0..MaxSeed :
                  example_ixs' = Draw(Len(gtruths), replace, seed)
            /\ pc' = "render"
    /\ UNCHANGED <<training, entry_mode, dataloaders, trainVars, vizVars,
                   xdata, replace, xi, wrong_ixs, all_wrong, preds, gtruths, cells>>

\* lines 152-172: one grid cell per sampled index
ExploreRender ==
    /\ pc = "render"
    /\ cells' = [i \in DOMAIN example_ixs |->
                    [im |-> all_wrong[example_ixs[i] + 1],
                     true |-> gtruths[example_ixs[i] + 1],
                     guess |-> preds[example_ixs[i] + 1]]]
    /\ pc' = "rendered"
    /\ UNCHANGED <<training, entry_mode, dataloaders, trainVars, vizVars,
                   xdata, replace, xi, wrong_ixs, all_wrong, preds, gtruths,
                   example_ixs>>

\* line 173
ExploreExit ==
    /\ pc = "rendered"
    /\ training' = ExitMode(entry_mode)
    /\ pc' = "done"
    /\ UNCHANGED <<entry_mode, dataloaders, trainVars, vizVars, exploreVars>>

NextExplore ==
    ExploreEnter \/ ExploreBatch \/ ExploreAppend \/ ExploreSample
        \/ ExploreRender \/ ExploreExit

SpecExplore == InitExplore /\ [][NextExplore]_vars

\* ================================================================ claims
\* ------------------------------------------------------------ train_model
TrainReturned == pc = "done" /\ num_epochs >= 1

\* the highest validation accuracy recorded in the log
IsHighest(i) == \A j \in DOMAIN val_log : ~FracGt(val_log[j].acc, val_log[i].acc)

\* the earliest epoch (index of the log) that recorded the highest accuracy
EarliestBest ==
    CHOOSE i \in DOMAIN val_log :
        IsHighest(i) /\ \A j \in DOMAIN val_log : IsHighest(j) => i <= j

SomeEpochImproved == \E i \in DOMAIN val_log : val_log[i].acc.num > 0

\* C1 as stated: whenever train_model returns after at least one epoch, the
\* parameters of the model are those the model had at the validation phase with
\* the highest validation accuracy, the earliest such phase on ties.
C1_ReturnsBestValSnapshot ==
    TrainReturned => params = val_log[EarliestBest].wts

\* C1 amended: provided some epoch's validation accuracy exceeds 0, the stored
\* snapshot is at every moment the parameters of the earliest validation phase
\* with the highest accuracy recorded so far (later optimizer steps do not
\* alter it), and the returned model carries that snapshot.
C1_ReturnsBestPositiveSnapshot ==
    SomeEpochImproved =>
        /\ best_model_wts = val_log[EarliestBest].wts
        /\ best_acc = val_log[EarliestBest].acc
        /\ pc = "done" => params = val_log[EarliestBest].wts

\* a tie at the highest accuracy, the later epoch with other parameters, and
\* the last epoch not the best one
C1_Witness ==
    /\ pc = "done" /\ Len(val_log) = 2
    /\ val_log[1].acc.num > 0
    /\ val_log[1].acc = val_log[2].acc
    /\ val_log[1].wts # val_log[2].wts
    /\ params = val_log[1].wts
    /\ opt_steps > params

\* C2: when no epoch's validation accuracy exceeds the initial 0.0, the model
\* train_model returns has the parameters it had on entry.
C2_NoImprovementReturnsInitial ==
    (pc = "done" /\ ~SomeEpochImproved) => params = InitialParams

C2_Witness ==
    /\ pc = "done" /\ ~SomeEpochImproved
    /\ Len(val_log) = 2 /\ opt_steps >= 2

\* C3: scheduler.step() has been called once for every train phase completed:
\* not before the last train batch of the epoch, already before the first
\* validation batch, not again during validation, num_epochs times in all.
C3_SchedulerOncePerEpoch ==
    /\ (pc \in {"phase_begin", "batches"} /\ phase = "train") => sched_steps = epoch
    /\ (pc \in {"phase_begin", "batches"} /\ phase = "val") => sched_steps = epoch + 1
    /\ pc \in {"finish", "done"} => sched_steps = num_epochs

C3_Witness ==
    /\ pc = "done" /\ num_epochs = 2 /\ sched_steps = 2
    /\ Len(dataloaders["val"]) = 2 /\ Len(dataloaders["train"]) = 2

\* number of matching positions, counted from the left
RECURSIVE CountEqual(_, _)
CountEqual(a, b) ==
    IF a = <<>> THEN 0
    ELSE (IF Head(a) = Head(b) THEN 1 ELSE 0) + CountEqual(Tail(a), Tail(b))

\* C8: the accumulators are 0 when a phase starts its batches; every batch adds
\* the number of its correctly predicted examples to running_corrects and its
\* loss times its size to running_loss (3 for labels [0,1,1,0] and predictions
\* [0,1,0,0]); the epoch accuracy is the total over the supplied split size.
C8_RunningStatistics ==
    /\ (pc = "batches" /\ bidx = 0) => (running_corrects = 0 /\ running_loss = 0)
    /\ (pc = "batches" /\ bidx > 0) =>
          /\ last.phase = phase
          /\ last.labels = dataloaders[phase][bidx]
          /\ running_corrects = last.corrects_before + CountEqual(last.preds, last.labels)
          /\ running_loss = last.loss_before + last.loss * Len(last.labels)
          /\ bidx = 1 => (last.corrects_before = 0 /\ last.loss_before = 0)
          /\ (last.labels = <<0, 1, 1, 0>> /\ last.preds = <<0, 1, 0, 0>>)
                => running_corrects = 3 /\ running_loss = last.loss * 4
    /\ (pc = "phase_begin" /\ phase = "val") =>
          epoch_acc = Frac(running_corrects, dataset_sizes["train"])
    /\ (pc \in {"phase_begin", "finish"} /\ epoch > 0 /\ phase = "train") =>
          /\ epoch_acc = Frac(running_corrects, dataset_sizes["val"])
          /\ val_log[epoch].acc = epoch_acc

C8_Witness ==
    /\ pc = "batches" /\ phase = "val" /\ bidx = 1
    /\ last.labels = <<0, 1, 1, 0>> /\ last.preds = <<0, 1, 0, 0>>
    /\ running_corrects = 3

\* C9: the optimizer has stepped once for every train batch processed and for
\* no other batch, so the parameters do not move during a validation phase; the
\* forward pass ran with gradient tracking exactly for train batches.
C9_OptimizeOnlyInTrain ==
    /\ pc \in {"phase_begin", "batches", "finish"} =>
          /\ params = opt_steps
          /\ opt_steps = epoch * Len(dataloaders["train"])
                + (IF phase = "val" THEN Len(dataloaders["train"])
                   ELSE IF pc = "batches" THEN bidx ELSE 0)
    /\ last.phase = "val" => (~last.grad /\ ~last.stepped)
    /\ last.phase = "train" => (last.grad /\ last.stepped)

C9_Witness ==
    /\ pc = "batches" /\ phase = "val" /\ epoch = 1 /\ bidx = 2
    /\ opt_steps = 4 /\ params = 4 /\ last.phase = "val"

\* -------------------------------------------------------- visualize_model
VizOver == pc \in {"done", "failed"}

\* the examples of a loader as (batch, index in the batch), both from 0, batch
\* by batch and by index inside a batch
RECURSIVE PositionsFrom(_, _)
PositionsFrom(loader, b) ==
    IF b > Len(loader) THEN <<>>
    ELSE [j \in 1..Len(loader[b]) |-> [batch |-> b - 1, index |-> j - 1]]
         \o PositionsFrom(loader, b + 1)

ValPositions == PositionsFrom(dataloaders["val"], 1)

\* C4: visualize_model never draws more than num_images images; what it has
\* drawn is a prefix of the validation examples in batch order, then index
\* order; once the shown-count reaches num_images the function is over; and
\* when the split holds fewer than num_images examples it draws them all.
C4_AtMostNumImagesInOrder ==
    /\ Len(rendered) <= num_images
    /\ Len(rendered) <= Len(ValPositions)
    /\ \A k \in DOMAIN rendered :
          /\ rendered[k].batch = ValPositions[k].batch
          /\ rendered[k].index = ValPositions[k].index
    /\ (images_so_far > 0 /\ images_so_far >= num_images) => VizOver
    /\ (VizOver /\ Len(ValPositions) < num_images) =>
          (pc = "done" /\ Len(rendered) = Len(ValPositions))

C4_Witness ==
    /\ pc = "done" /\ num_images = 2 /\ Len(rendered) = 2
    /\ Len(ValPositions) = 3 /\ Len(dataloaders["val"]) = 3

\* C5: when visualize_model is over, having returned or having stopped with
\* the shown-count at the requested number of images, the model is in the mode
\* it had when the function was called, for every num_images, odd ones included.
C5_ModeRestored ==
    (pc = "done" \/ (pc = "failed" /\ images_so_far = num_images))
        => training = entry_mode

\* -------------------------------------------------- explore_wrong_5x5_rgb
\* C6 as stated: after explore_wrong_5x5_rgb completes the model is in
\* evaluation mode.
C6_LeftInEvalMode == pc = "done" => training = FALSE

\* C6 amended: the model is in evaluation mode from the start of the scan to
\* the last grid cell (and after a failed draw), and in training mode once the
\* function has completed, whatever mode it had on entry.
C6_LeftInTrainMode ==
    /\ pc \in {"scan", "append", "render", "rendered", "failed"} => training = FALSE
    /\ pc = "done" => training = TRUE

C6_Witness ==
    /\ pc = "done" /\ entry_mode = FALSE /\ training = TRUE
    /\ Len(cells) = 25

Sampled == pc \in {"failed", "render", "rendered", "done"}

\* C7: with fewer than 25 misclassified examples and replace false the draw
\* fails and no cell is rendered; with at least 25 the draw yields 25 indices of
\* the collection, pairwise distinct when replace is false, and 25 cells are
\* rendered, each showing the example of its index.
C7_DrawOf25 ==
    Sampled =>
        /\ (Len(gtruths) < 25 /\ ~replace) =>
              (pc = "failed" /\ cells = <<>> /\ example_ixs = <<>>)
        /\ Len(gtruths) >= 25 =>
              /\ pc # "failed"
              /\ Len(example_ixs) = 25
              /\ \A i \in DOMAIN example_ixs :
                    example_ixs[i] \in 0..(Len(gtruths) - 1)
              /\ ~replace =>
                    \A i, j \in DOMAIN example_ixs :
                        i # j => example_ixs[i] # example_ixs[j]
              /\ pc \in {"rendered", "done"} =>
                    /\ Len(cells) = 25
                    /\ \A i \in DOMAIN cells :
                          /\ cells[i].im = all_wrong[example_ixs[i] + 1]
                          /\ cells[i].true = gtruths[example_ixs[i] + 1]
                          /\ cells[i].guess = preds[example_ixs[i] + 1]

C7_Witness ==
    /\ pc = "failed" /\ ~replace /\ Len(gtruths) = 24 /\ cells = <<>>

RECURSIVE Flatten(_)
Flatten(batches) ==
    IF batches = <<>> THEN <<>> ELSE Head(batches) \o Flatten(Tail(batches))

\* the number of examples the scan has dealt with: those of the batches before
\* the current one and, of the current one, those before the next pending index
Scanned ==
    IF xi = 0 THEN 0
    ELSE Len(Flatten(SubSeq(xdata, 1, xi - 1)))
         + (IF pc = "append" THEN Head(wrong_ixs) ELSE Len(xdata[xi]))

\* C10: the three collections have one length; they hold, in dataset order and
\* each once, exactly the examples dealt with so far whose predicted class
\* differs from the label (all of the dataset once the scan is over), entry i
\* of each describing the same example.
C10_ParallelCollections ==
    LET flat == Flatten(xdata) IN
    /\ Len(all_wrong) = Len(preds)
    /\ Len(preds) = Len(gtruths)
    /\ \A i \in DOMAIN all_wrong : \A j \in DOMAIN all_wrong :
          i < j => all_wrong[i] < all_wrong[j]
    /\ Range(all_wrong) = {k \in 1..Scanned : flat[k].out # flat[k].y}
    /\ \A i \in DOMAIN all_wrong :
          /\ flat[all_wrong[i]].x = all_wrong[i]
          /\ preds[i] = flat[all_wrong[i]].out
          /\ gtruths[i] = flat[all_wrong[i]].y
          /\ preds[i] # gtruths[i]
    /\ (pc = "scan" /\ xi = Len(xdata)) \/ Sampled => Scanned = Len(flat)

C10_Witness ==
    /\ pc = "scan" /\ xi = Len(xdata) /\ Len(xdata) = 13
    /\ Len(all_wrong) = 24 /\ all_wrong[1] = 1 /\ all_wrong[2] = 3
    /\ preds[1] = 0 /\ gtruths[1] = 1 /\ preds[2] = 1 /\ gtruths[2] = 0

====
